---- MODULE Spec2Model ----
(***************************************************************************)
(* Model of foobar-dupefile.py: a directory walk that collects pairs       *)
(* (original, keeper) by file name, followed by a loop that deletes or     *)
(* moves every collected original.                                         *)
(*                                                                         *)
(* File names are sequences of characters; the four characters " (1)" are  *)
(* kept together as one unit (Marker).  Directories are sequences of path  *)
(* components.  The file system is a set of records [path, id]: id is the  *)
(* path the file had in the initial tree, so that a file can be followed   *)
(* through a move and a lost file is visible.                              *)
(***************************************************************************)
EXTENDS Integers, Sequences, FiniteSets, TLC

VARIABLES fs, dirs, cfg, pc, walkq, root, listed, files_to_process, idx,
          log, last, probe, fs0

vars == <<fs, dirs, cfg, pc, walkq, root, listed, files_to_process, idx,
          log, last, probe, fs0>>

\* Largest number of files in the initial tree.
MaxFiles == 3

\* Largest number of calls of handle_file on one pair in ResolverSpec.
MaxCalls == 2

Marker == " (1)"

\* The file names of the bounded universe:
\*   a.x   a (1).x   a.X   a.y   a.   a. (1)   a (1). (1)
Names ==
    { <<"a", ".", "x">>, <<"a", Marker, ".", "x">>, <<"a", ".", "X">>,
      <<"a", ".", "y">>, <<"a", ".">>, <<"a", ".", Marker>>,
      <<"a", Marker, ".", Marker>> }

SOURCE_PATH == <<"src">>

\* Directories that may hold files in the initial tree.
InitDirs == { <<"src">>, <<"src", "sub">>, <<"out">> }

\* TARGET_PATH: outside the source tree, inside it, or the source root itself.
TargetChoices == { <<"out">>, <<"src", "sub">>, <<"src">> }

NoTarget == <<>>

MkPath(d, n) == [dir |-> d, name |-> n]

NoPath == MkPath(<<>>, <<>>)

InitPaths == { MkPath(d, n) : d \in InitDirs, n \in Names }

-----------------------------------------------------------------------------
(* pathlib.PurePath.stem / .suffix and str.lower / str.endswith.  The      *)
(* suffix rule is the one of Python 3.9 to 3.13 (the code needs 3.9 for    *)
(* tuple[...]): the last dot starts the suffix unless it is the first or   *)
(* the last character of the name, so "a." has the stem "a." and no suffix *)
(* while "a. (1)" has the stem "a" and the suffix ". (1)".                 *)

Max(S) == CHOOSE x \in S : \A y \in S : y <= x

\* name.rfind('.'), 1-based; 0 when there is no dot
RFindDot(n) == Max({0} \cup { i \in 1..Len(n) : n[i] = "." })

\* a suffix needs a dot that is neither the first nor the last character
HasSuffix(n) == 1 < RFindDot(n) /\ RFindDot(n) < Len(n)

Suffix(n) == IF HasSuffix(n) THEN SubSeq(n, RFindDot(n), Len(n)) ELSE <<>>

Stem(n) == IF HasSuffix(n) THEN SubSeq(n, 1, RFindDot(n) - 1) ELSE n

LowerChar(c) == IF c = "X" THEN "x" ELSE c

Lower(s) == [ i \in 1..Len(s) |-> LowerChar(s[i]) ]

\* s[1:]
DropFirst(s) == IF s = <<>> THEN <<>> ELSE Tail(s)

\* file_path.suffix.lower()[1:]
Ext(n) == DropFirst(Lower(Suffix(n)))

EndsWithMarker(s) == Len(s) > 0 /\ s[Len(s)] = Marker

-----------------------------------------------------------------------------
(* the file system                                                         *)

exists(p) == \E f \in fs : f.path = p

FileAt(F, p) == { f \in F : f.path = p }

Paths(F) == { f.path : f \in F }

\* parent.iterdir(), files only
iterdir(d) == { p \in Paths(fs) : p.dir = d }

Prefixes(d) == { SubSeq(d, 1, k) : k \in 1..Len(d) }

\* directories that exist because a file lies in them, plus the source root
DirsOf(F) == UNION { Prefixes(f.path.dir) : f \in F } \cup {SOURCE_PATH}

IsPrefix(a, b) == Len(a) <= Len(b) /\ SubSeq(b, 1, Len(a)) = a

\* Path.relative_to
relative_to(d, base) == SubSeq(d, Len(base) + 1, Len(d))

Children(d) == { e \in dirs : Len(e) = Len(d) + 1 /\ IsPrefix(d, e) }

Perms(S) ==
    { q \in [1..Cardinality(S) -> S] : \A i, j \in 1..Cardinality(S) :
                                          i # j => q[i] # q[j] }

\* file_path.unlink()
Unlink(p) == { f \in fs : f.path # p }

\* shutil.move(src, dst) for an existing regular file src: os.rename replaces
\* a file that is already at dst, and renaming a file onto itself does nothing
Moved(src, dst) ==
    IF src = dst
    THEN fs
    ELSE { f \in fs : f.path # src /\ f.path # dst }
         \cup { [path |-> dst, id |-> f.id] : f \in FileAt(fs, src) }

-----------------------------------------------------------------------------
(* load_environment                                                        *)

Configs ==
    { [action |-> "delete", target_path |-> NoTarget,
       handle_different_extensions |-> h, target_extension |-> t] :
         h \in BOOLEAN, t \in { <<>>, <<"x">> } }
    \cup
    { [action |-> "move", target_path |-> tp,
       handle_different_extensions |-> h, target_extension |-> t] :
         tp \in TargetChoices, h \in BOOLEAN, t \in { <<>>, <<"x">> } }

CrossExtensionMode ==
    cfg.handle_different_extensions /\ cfg.target_extension # <<>>

ExactSuffixSiblingMode == ~CrossExtensionMode

-----------------------------------------------------------------------------
(* find_duplicate_pairs: the set of results it can return (the order of    *)
(* iterdir is not fixed, so any matching entry may be the first one)       *)

NotFound == [found |-> FALSE, path |-> NoPath]

Found(p) == [found |-> TRUE, path |-> p]

\* (variant: the extension is folded to lower case before it is appended)
duplicate_name_lower(n) == Stem(n) \o <<Marker>> \o Lower(Suffix(n))

duplicate_name(n) == Stem(n) \o <<Marker>> \o Suffix(n)

\* (variant: the extension of the other entry is compared as written)
is_other_extension_cased(other, name, target_extension) ==
    Stem(other.name) = name /\ DropFirst(Suffix(other.name)) # target_extension

is_other_extension(other, name, target_extension) ==
    Stem(other.name) = name /\ Ext(other.name) # target_extension

find_duplicate_pairs(file_path, handle_different_extensions, target_extension) ==
    LET name == Stem(file_path.name)
        suffix == Ext(file_path.name)
        parent == file_path.dir
    IN  IF handle_different_extensions /\ target_extension # <<>>
        THEN IF suffix = target_extension
             THEN LET hits == { o \in iterdir(parent) :
                                  is_other_extension(o, name, target_extension) }
                  IN  IF hits # {} THEN { Found(o) : o \in hits }
                      ELSE {NotFound}
             ELSE {NotFound}
        ELSE LET duplicate_path == MkPath(parent, duplicate_name(file_path.name))
             IN  IF exists(duplicate_path) THEN {Found(duplicate_path)}
                 ELSE {NotFound}

-----------------------------------------------------------------------------
(* handle_file: the file system after the call and whether it returned     *)
(* (ok) or raised.  oserror: the operating system refuses the unlink or    *)
(* the move (permission denied, disk full, ...).                           *)

\* (variant: a missing source file is passed over in silence)
raises_missing_ok(file_path, oserror) == oserror

raises(file_path, oserror) == ~exists(file_path) \/ oserror

\* (variant: the directory below the source root is not mirrored)
new_target_flat(file_path, target_path) == target_path

new_target_of(file_path, target_path) ==
    target_path \o relative_to(file_path.dir, SOURCE_PATH)

handle_file(file_path, duplicate_path, action, target_path, oserror) ==
    IF action = "delete"
    THEN IF raises(file_path, oserror)
         THEN [fs |-> fs, dirs |-> dirs, ok |-> FALSE]
         ELSE [fs |-> Unlink(file_path), dirs |-> dirs, ok |-> TRUE]
    ELSE LET new_target == new_target_of(file_path, target_path)
             made == dirs \cup Prefixes(target_path) \cup Prefixes(new_target)
             dst == MkPath(new_target, file_path.name)
         IN  IF raises(file_path, oserror)
             THEN [fs |-> fs, dirs |-> made, ok |-> FALSE]
             ELSE [fs |-> Moved(file_path, dst), dirs |-> made, ok |-> TRUE]

-----------------------------------------------------------------------------
(* process_directory                                                       *)

RECURSIVE UpTo(_, _)
\* the subsets of S with at most k elements
UpTo(S, k) ==
    IF k = 0 THEN {{}}
    ELSE UpTo(S, k - 1) \cup { T \cup {x} : T \in UpTo(S, k - 1), x \in S }

InitTrees == { { [path |-> p, id |-> p] : p \in P } : P \in UpTo(InitPaths, MaxFiles) }

NoCall == [called |-> FALSE, orig |-> NoPath, keeper |-> NoPath, ok |-> FALSE,
           pre |-> {}]

NoProbe == [called |-> FALSE, file |-> NoPath, result |-> NotFound]

Init ==
    /\ fs \in InitTrees
    /\ fs0 = fs
    /\ dirs = DirsOf(fs)
    /\ cfg \in Configs
    /\ pc = "walk"
    /\ walkq = <<SOURCE_PATH>>
    /\ root = <<>>
    /\ listed = {}
    /\ files_to_process = <<>>
    /\ idx = 0
    /\ log = <<>>
    /\ last = NoCall
    /\ probe = NoProbe

\* os.walk yields the next directory, top-down, with the files it holds now
WalkEnterDir ==
    /\ pc = "walk"
    /\ listed = {}
    /\ walkq # <<>>
    /\ root' = Head(walkq)
    /\ listed' = { p.name : p \in iterdir(Head(walkq)) }
    /\ \E q \in Perms(Children(Head(walkq))) : walkq' = q \o Tail(walkq)
    /\ UNCHANGED <<fs, dirs, cfg, pc, files_to_process, idx, log, last, probe, fs0>>

\* one iteration of "for file in files"
WalkFile ==
    /\ pc = "walk"
    /\ \E file \in listed :
         LET file_path == MkPath(root, file)
         IN  /\ listed' = listed \ {file}
             /\ IF ~EndsWithMarker(Stem(file))
                THEN \E r \in find_duplicate_pairs(file_path,
                                   cfg.handle_different_extensions,
                                   cfg.target_extension) :
                       /\ probe' = [called |-> TRUE, file |-> file_path, result |-> r]
                       /\ files_to_process' =
                            IF r.found
                            THEN Append(files_to_process, <<file_path, r.path>>)
                            ELSE files_to_process
                ELSE UNCHANGED <<probe, files_to_process>>
    /\ UNCHANGED <<fs, dirs, cfg, pc, walkq, root, idx, log, last, fs0>>

\* the walk is exhausted: the second loop begins
WalkEnd ==
    /\ pc = "walk"
    /\ listed = {}
    /\ walkq = <<>>
    /\ pc' = "resolve"
    /\ UNCHANGED <<fs, dirs, cfg, walkq, root, listed, files_to_process, idx,
                   log, last, probe, fs0>>

\* (variant: a pair is handled as soon as it has been collected)
CanResolveEarly == pc \in {"walk", "resolve"}

\* when the loop over files_to_process may take its next pair
CanResolve == pc = "resolve"

\* (variant: the exception is swallowed and the loop goes on)
AfterCallSwallow(ok) == pc

\* where control goes after a call of handle_file: an exception leaves the
\* loop and is raised again by process_directory
AfterCall(ok) == IF ok THEN pc ELSE "failed"

Outcome(ok) == IF ok THEN "ok" ELSE "error"

Call(pair, oserror) ==
    LET r == handle_file(pair[1], pair[2], cfg.action, cfg.target_path, oserror)
    IN  /\ fs' = r.fs
        /\ dirs' = r.dirs
        /\ pc' = AfterCall(r.ok)
        /\ log' = Append(log, Outcome(r.ok))
        /\ last' = [called |-> TRUE, orig |-> pair[1], keeper |-> pair[2],
                    ok |-> r.ok, pre |-> fs]

\* one iteration of "for original_path, duplicate_path in files_to_process"
HandleNext ==
    /\ CanResolve
    /\ idx < Len(files_to_process)
    /\ \E oserror \in BOOLEAN : Call(files_to_process[idx + 1], oserror)
    /\ idx' = idx + 1
    /\ UNCHANGED <<cfg, walkq, root, listed, files_to_process, probe, fs0>>

\* "File processing completed"
Finish ==
    /\ pc = "resolve"
    /\ idx = Len(files_to_process)
    /\ pc' = "done"
    /\ UNCHANGED <<fs, dirs, cfg, walkq, root, listed, files_to_process, idx,
                   log, last, probe, fs0>>

Next == WalkEnterDir \/ WalkFile \/ WalkEnd \/ HandleNext \/ Finish

Spec == Init /\ [][Next]_vars

-----------------------------------------------------------------------------
(* handle_file called repeatedly on one pair that the matcher found: the   *)
(* caller catches the exception and may call again.                        *)

Candidates ==
    { q \in Paths(fs) : /\ IsPrefix(SOURCE_PATH, q.dir)
                        /\ ~EndsWithMarker(Stem(q.name)) }

CollectedPairs ==
    UNION { { <<p, r.path>> :
                r \in { m \in find_duplicate_pairs(p, cfg.handle_different_extensions,
                                                   cfg.target_extension) : m.found } } :
            p \in Candidates }

InitResolver ==
    /\ fs \in InitTrees
    /\ fs0 = fs
    /\ dirs = DirsOf(fs)
    /\ cfg \in Configs
    /\ pc = "call"
    /\ walkq = <<>>
    /\ root = <<>>
    /\ listed = {}
    /\ files_to_process \in { <<pair>> : pair \in CollectedPairs }
    /\ idx = 0
    /\ log = <<>>
    /\ last = NoCall
    /\ probe = NoProbe

ResolveCall ==
    /\ pc = "call"
    /\ Len(log) < MaxCalls
    /\ \E oserror \in BOOLEAN :
         LET pair == files_to_process[1]
             r == handle_file(pair[1], pair[2], cfg.action, cfg.target_path, oserror)
         IN  /\ fs' = r.fs
             /\ dirs' = r.dirs
             /\ log' = Append(log, Outcome(r.ok))
             /\ last' = [called |-> TRUE, orig |-> pair[1], keeper |-> pair[2],
                         ok |-> r.ok, pre |-> fs]
    /\ idx' = idx + 1
    /\ UNCHANGED <<cfg, pc, walkq, root, listed, files_to_process, probe, fs0>>

NextResolver == ResolveCall

ResolverSpec == InitResolver /\ [][NextResolver]_vars

-----------------------------------------------------------------------------
(* The properties                                                          *)

Pairs == { files_to_process[i] : i \in 1..Len(files_to_process) }

\* target_root/<directory of p relative to source_root>/<file name of p>
MirroredPath(p) ==
    MkPath(cfg.target_path \o SubSeq(p.dir, Len(SOURCE_PATH) + 1, Len(p.dir)), p.name)

\* the file that was at path p before the last call, as it would be at path q
Relocated(p, q) == { [path |-> q, id |-> f.id] : f \in FileAt(last.pre, p) }

Resolved == last.called /\ last.ok

\* the keepers the matching rules give file p in tree F
ExpectedKeepers(p, F) ==
    IF CrossExtensionMode
    THEN IF Ext(p.name) = cfg.target_extension
         THEN { q \in Paths(F) : /\ q.dir = p.dir
                                 /\ Stem(q.name) = Stem(p.name)
                                 /\ Ext(q.name) # cfg.target_extension }
         ELSE {}
    ELSE { MkPath(p.dir, Stem(p.name) \o <<Marker>> \o Suffix(p.name)) } \cap Paths(F)

\* C1 (as claimed): after a successful move in ExactSuffixSiblingMode the
\* original has left its path, a file is at the mirrored target path, the
\* keeper's path is gone and a file (the renamed keeper) is at the path the
\* original had.
C1_MoveExactRenamesKeeper ==
    (cfg.action = "move" /\ ExactSuffixSiblingMode /\ Resolved) =>
        /\ FileAt(fs, last.orig) \cap FileAt(last.pre, last.orig) = {}
        /\ exists(MirroredPath(last.orig))
        /\ ~exists(last.keeper)
        /\ exists(last.orig)

\* C2 (as claimed): after a successful delete the original's path is gone and
\* the keeper is still the same file at the same path, in both modes; a delete
\* run over a tree of a.x and "a (1).x" alone leaves only "a (1).x".
C2_DeleteKeepsKeeper ==
    /\ (cfg.action = "delete" /\ Resolved) =>
          /\ ~exists(last.orig)
          /\ exists(last.keeper)
          /\ FileAt(fs, last.keeper) = FileAt(fs0, last.keeper)
    /\ ( /\ cfg.action = "delete"
         /\ ExactSuffixSiblingMode
         /\ pc = "done"
         /\ Paths(fs0) = { MkPath(SOURCE_PATH, <<"a", ".", "x">>),
                           MkPath(SOURCE_PATH, <<"a", Marker, ".", "x">>) } )
       => Paths(fs) = { MkPath(SOURCE_PATH, <<"a", Marker, ".", "x">>) }

\* C3 (as claimed): when the run has ended, every collected pair has been
\* attempted, also those after a failed one, and the run has failed if any
\* pair failed.
C3_ErrorsIsolated ==
    pc \in {"done", "failed"} =>
        /\ Len(log) = Len(files_to_process)
        /\ (\E i \in 1..Len(log) : log[i] = "error") => pc = "failed"

\* C3 (amended): a failed pair is the last pair attempted: the run is in its
\* failed state at once, no later pair is attempted, and nothing more happens.
C3_FirstErrorAborts ==
    /\ \A i \in 1..Len(log) :
          log[i] = "error" => (i = Len(log) /\ pc = "failed")
    /\ Len(log) = idx
    /\ pc = "failed" => (~ENABLED HandleNext /\ log[Len(log)] = "error")

C3_Witness == pc = "failed" /\ idx < Len(files_to_process) /\ idx >= 1

\* C4: the tree is as it was at the start until the walk has visited every
\* directory and file, and the pairs collected are exactly those the matching
\* rules give on the initial tree.
C4_TwoPhase ==
    /\ (fs # fs0 \/ dirs # DirsOf(fs0)) =>
          (pc # "walk" /\ walkq = <<>> /\ listed = {})
    /\ \A pair \in Pairs :
          /\ pair[1] \in Paths(fs0)
          /\ ~EndsWithMarker(Stem(pair[1].name))
          /\ pair[2] \in ExpectedKeepers(pair[1], fs0)
    /\ pc # "walk" =>
          /\ { pair[1] : pair \in Pairs } =
               { p \in Paths(fs0) : /\ IsPrefix(SOURCE_PATH, p.dir)
                                    /\ ~EndsWithMarker(Stem(p.name))
                                    /\ ExpectedKeepers(p, fs0) # {} }
          /\ Cardinality(Pairs) = Len(files_to_process)

\* two pairs were collected and both have been handled; the first move put a
\* file into a directory of the source tree that the walk had visited before
C4_Witness ==
    /\ pc = "resolve"
    /\ idx = 2
    /\ log = <<"ok", "ok">>
    /\ \E p \in Paths(fs) \ Paths(fs0) : IsPrefix(SOURCE_PATH, p.dir)

\* C5 (as claimed): after a successful move in CrossExtensionMode the original
\* is at the mirrored target path, whose directories exist, and no longer at
\* its source path; the keeper is the same file at the same path.
C5_MoveCrossMirrors ==
    (cfg.action = "move" /\ CrossExtensionMode /\ Resolved) =>
        /\ FileAt(fs, MirroredPath(last.orig)) = Relocated(last.orig, MirroredPath(last.orig))
        /\ exists(MirroredPath(last.orig))
        /\ Prefixes(MirroredPath(last.orig).dir) \subseteq dirs
        /\ ~exists(last.orig)
        /\ exists(last.keeper)
        /\ FileAt(fs, last.keeper) = FileAt(fs0, last.keeper)

\* C5 (amended): the same, when target_root is not the source root itself.
C5_MoveCrossMirrorsElsewhere ==
    cfg.target_path # SOURCE_PATH => C5_MoveCrossMirrors

C5_Witness ==
    /\ cfg.action = "move" /\ CrossExtensionMode /\ Resolved
    /\ cfg.target_path # SOURCE_PATH
    /\ last.orig.dir = <<"src", "sub">>
    /\ MirroredPath(last.orig).dir \notin DirsOf(fs0)

\* C6 (as claimed): a call of handle_file right after a successful call on the
\* same pair raises, and leaves the keeper as the first call left it.
C6_SecondCallFails ==
    (Len(log) >= 2 /\ log[Len(log) - 1] = "ok") =>
        /\ log[Len(log)] = "error"
        /\ FileAt(fs, last.keeper) = FileAt(last.pre, last.keeper)

\* C6 (amended): the same, for a delete and for a move whose target_root is
\* not the source root itself.
C6_SecondCallFailsElsewhere ==
    (cfg.action = "delete" \/ cfg.target_path # SOURCE_PATH) => C6_SecondCallFails

C6_Witness ==
    /\ log = <<"ok", "error">>
    /\ cfg.action = "move"
    /\ exists(last.keeper)

\* C7: in ExactSuffixSiblingMode the matcher, asked about file F (whose stem
\* does not end with the marker), returns "<stem> (1)<suffix>" in F's
\* directory when that path exists and nothing when it does not, and the tree
\* is untouched while files are being matched.
C7_ExactMatch ==
    (ExactSuffixSiblingMode /\ probe.called) =>
        LET F == probe.file
            want == MkPath(F.dir, Stem(F.name) \o <<Marker>> \o Suffix(F.name))
        IN  /\ ~EndsWithMarker(Stem(F.name))
            /\ probe.result = IF want \in Paths(fs0)
                              THEN [found |-> TRUE, path |-> want]
                              ELSE [found |-> FALSE, path |-> NoPath]
            /\ pc = "walk" => fs = fs0

C7_Witness ==
    /\ ExactSuffixSiblingMode /\ probe.called /\ probe.result.found
    /\ probe.file.dir = <<"src", "sub">>

\* C8: in CrossExtensionMode the matcher returns nothing for a file whose
\* extension (case folded) is not the target extension; for a file that has
\* the target extension it returns an entry of the same directory with the
\* same stem and another extension when there is one, and nothing when there
\* is none; what it returns is never the file itself.
C8_CrossMatch ==
    (CrossExtensionMode /\ probe.called) =>
        LET F == probe.file
            text == cfg.target_extension
            cands == { q \in Paths(fs0) : /\ q.dir = F.dir
                                          /\ Stem(q.name) = Stem(F.name)
                                          /\ Ext(q.name) # text }
        IN  /\ Ext(F.name) # text => ~probe.result.found
            /\ (Ext(F.name) = text /\ cands = {}) => ~probe.result.found
            /\ (Ext(F.name) = text /\ cands # {}) =>
                  (probe.result.found /\ probe.result.path \in cands)
            /\ probe.result.found =>
                  (probe.result.path # F /\ probe.result.path.dir = F.dir)
            /\ ~probe.result.found => probe.result.path = NoPath

C8_Witness ==
    /\ CrossExtensionMode /\ probe.called /\ probe.result.found
    /\ probe.file.name = <<"a", ".", "X">>
    /\ \E p \in Paths(fs0) : p.dir = probe.file.dir /\ p.name = <<"a", ".", "x">>

\* C9 (as claimed): no collected original has a stem that ends with the
\* marker, and no collected keeper is a collected original.
C9_OriginalsKeepersDisjoint ==
    \A p, q \in Pairs :
        /\ ~EndsWithMarker(Stem(p[1].name))
        /\ p[1] # q[2]

\* C10 (as claimed): in a move run every file of the initial tree is still
\* there, at one path.
C10_MoveConserves ==
    cfg.action = "move" =>
        \A f0 \in fs0 : Cardinality({ f \in fs : f.id = f0.id }) = 1

====
